---- MODULE Spec2Model ----
(***************************************************************************)
(* GRUModule (src/networks/rnn_module.py): a stacked GRU followed by a     *)
(* layer norm, whose forward() resets the hidden state of a batch column   *)
(* wherever that column's mask is 0, and processes a (T, B, input_dim)     *)
(* sequence in chunks cut at the rows whose mask holds a zero.             *)
(*                                                                         *)
(* Tensors are records [shape, data].  The feature axis is abstract: a     *)
(* feature vector is one value of XVals (inputs) or HVals (hidden vectors, *)
(* 0 being the zero vector) and the shape carries the size of the axis.    *)
(*   x          : data is a B-sequence (rank 2) or a T-sequence of         *)
(*                B-sequences (rank 3)                                     *)
(*   rnn_states : data is an L-sequence of B-sequences                     *)
(*   masks      : data is the flat row-major storage, values in {0, 1}     *)
(***************************************************************************)
EXTENDS Integers, Sequences, FiniteSets, TLC

\* Bounds of the model.
MaxT == 3
MaxB == 2
MaxLayers == 2
MaxCells == 6

\* Constructor arguments that stay fixed in the model.
InputDim == 3
HiddenDim == 2

XVals == 0 .. 1
HVals == 0 .. 2
MVals == 0 .. 1

VARIABLES
    self,         \* the module: input_dim, hidden_dim, num_layers
    x,            \* the caller's input tensor
    rnn_states,   \* the caller's hidden state tensor
    masks,        \* the caller's mask tensor
    pc,           \* "start", "called" (forward has returned), "again"
    ret,          \* what forward(x, rnn_states, masks) returned or raised
    t,            \* the next step of the caller's single-step loop
    loop_states,  \* the hidden state threaded through the single-step loop
    loop_out,     \* the outputs of the single-step calls made so far
    ret2          \* what the repeated forward(x, rnn_states, masks) returned

vars == <<self, x, rnn_states, masks, pc, ret, t, loop_states, loop_out, ret2>>

(***************************************************************************)
(* Helpers on sequences.                                                   *)
(***************************************************************************)
RECURSIVE Numel(_)
Numel(shape) == IF shape = <<>> THEN 1 ELSE Head(shape) * Numel(Tail(shape))

RECURSIVE Cat(_)
Cat(seqs) == IF seqs = <<>> THEN <<>> ELSE Head(seqs) \o Cat(Tail(seqs))

NoTensor == [shape |-> <<>>, data |-> <<>>]

(***************************************************************************)
(* The two external primitives.  nn.GRU runs, per time step and per batch  *)
(* column, layer 1 on the input and layer l > 1 on the new hidden vector   *)
(* of layer l - 1; its output is the top layer's new hidden vector.  The   *)
(* cell is a fixed map that is injective in the hidden vector and does not *)
(* commute over time.  nn.LayerNorm acts on each feature vector alone.     *)
(* Dropout is 0.0, the constructor's default, so the recurrence is a       *)
(* function of its arguments.                                              *)
(***************************************************************************)
Cell(l, inp, h) == (inp + l + 3 - h) % 3

RECURSIVE LayerStep(_, _, _)
LayerStep(l, inp, hcol) ==
    IF l > Len(hcol) THEN <<>>
    ELSE LET n == Cell(l, inp, hcol[l]) IN <<n>> \o LayerStep(l + 1, n, hcol)

\* One time step of every column: xrow is a B-sequence, h an L x B matrix.
GruStep(xrow, h) ==
    LET L == Len(h)
        B == Len(xrow)
        col(b) == LayerStep(1, xrow[b], [l \in 1 .. L |-> h[l][b]])
    IN  [l \in 1 .. L |-> [b \in 1 .. B |-> col(b)[l]]]

RECURSIVE GruRun(_, _)
GruRun(xs, h) ==
    IF xs = <<>> THEN [out |-> <<>>, h |-> h]
    ELSE LET hn == GruStep(Head(xs), h)
             rest == GruRun(Tail(xs), hn)
         IN  [out |-> <<hn[Len(hn)]>> \o rest.out, h |-> rest.h]

\* self.gru(input, h0): nn.GRU rejects a hidden state that is not
\* (num_layers, batch, hidden_size) for the input's batch.
gru(slf, xs, h0) ==
    IF \/ Len(h0.shape) # 3
       \/ h0.shape[1] # slf.num_layers
       \/ h0.shape[2] # Len(xs[1])
       \/ h0.shape[3] # slf.hidden_dim
    THEN [ok |-> FALSE, out |-> <<>>, h |-> NoTensor]
    ELSE LET r == GruRun(xs, h0.data)
         IN  [ok |-> TRUE, out |-> r.out, h |-> [shape |-> h0.shape, data |-> r.h]]

LayerNormVec(v) == (v + 1) % 3

\* self.gru_layer_norm on a (B, hidden) and on a (T, B, hidden) tensor.
gru_layer_norm2(row) == [b \in 1 .. Len(row) |-> LayerNormVec(row[b])]
gru_layer_norm3(rows) == [i \in 1 .. Len(rows) |-> gru_layer_norm2(rows[i])]

(***************************************************************************)
(* Tensor operations used by forward.                                      *)
(***************************************************************************)
\* Variant: the batch put on the time axis, x.view(-1, 1, self.input_dim).
ViewBatchAsTime(slf, xin) ==
    [shape |-> <<Numel(xin.shape) \div slf.input_dim, 1, slf.input_dim>>,
     data |-> [b \in 1 .. Len(xin.data) |-> <<xin.data[b]>>]]

\* x.view(1, -1, self.input_dim) of a rank-2 x.
ViewSingleStep(slf, xin) ==
    [shape |-> <<1, Numel(xin.shape) \div slf.input_dim, slf.input_dim>>,
     data |-> <<xin.data>>]

\* masks.view(seq_len, batch_size): row i (from 1) of the flat storage.
MaskRow(msk, batch_size, i) ==
    [b \in 1 .. batch_size |-> msk.data[(i - 1) * batch_size + b]]

\* Variant: the mask read as a done flag, v * (1 - m).
MulValInverted(v, m) == IF m = 0 THEN v ELSE 0

\* v * m for a mask value m in {0, 1}.
MulVal(v, m) == IF m = 0 THEN 0 ELSE v

\* Variant: only the first layer is masked, rnn_states[0] * row.
MulMaskFirstLayer(states, row) ==
    [ok |-> Len(row) = states.shape[2],
     shape |-> states.shape,
     data |-> [l \in 1 .. Len(states.data) |-> [b \in 1 .. states.shape[2] |->
                  IF l = 1 /\ Len(row) = states.shape[2]
                  THEN (IF row[b] = 0 THEN 0 ELSE states.data[l][b])
                  ELSE states.data[l][b]]]]

\* Variant: a zero anywhere in the row resets every column, rnn_states * row.min().
MulMaskAnyZero(states, row) ==
    [ok |-> TRUE,
     shape |-> states.shape,
     data |-> [l \in 1 .. Len(states.data) |-> [b \in 1 .. states.shape[2] |->
                  IF \E c \in 1 .. Len(row) : row[c] = 0 THEN 0 ELSE states.data[l][b]]]]

\* rnn_states * row.view(1, -1, 1) with broadcasting: a new tensor.
MulMask(states, row) ==
    LET L == Len(states.data)
        B == states.shape[2]
        n == Len(row)
    IN  IF n = B
        THEN [ok |-> TRUE, shape |-> states.shape,
              data |-> [l \in 1 .. L |-> [b \in 1 .. B |->
                           MulVal(states.data[l][b], row[b])]]]
        ELSE IF n = 1
        THEN [ok |-> TRUE, shape |-> states.shape,
              data |-> [l \in 1 .. L |-> [b \in 1 .. B |->
                           MulVal(states.data[l][b], row[1])]]]
        ELSE IF B = 1
        THEN [ok |-> TRUE, shape |-> <<states.shape[1], n, states.shape[3]>>,
              data |-> [l \in 1 .. L |-> [b \in 1 .. n |->
                           MulVal(states.data[l][1], row[b])]]]
        ELSE [ok |-> FALSE, shape |-> <<>>, data |-> <<>>]

\* x.squeeze(0): drops axis 0 when its size is 1.
Squeeze0(ten) ==
    IF ten.shape[1] = 1
    THEN [shape |-> Tail(ten.shape), data |-> ten.data[1]]
    ELSE ten

(***************************************************************************)
(* forward(x, rnn_states, masks).  The result records what the call        *)
(* returned or raised, and what it did on the way: how often the           *)
(* recurrence and the normalization were invoked, the boundary list        *)
(* has_zeros and the temp_states handed to each recurrence call.           *)
(***************************************************************************)
Raise(kind, calls) ==
    [status |-> kind, y |-> NoTensor, h |-> NoTensor, gru_calls |-> calls,
     ln_calls |-> 0, has_zeros |-> <<>>, temp_states |-> <<>>]

NoRet == Raise("none", 0)

\* Lines 56-63: the asserts on x.
InputShapeOk(slf, xin) ==
    IF Len(xin.shape) = 2
    THEN xin.shape[2] = slf.input_dim
    ELSE Len(xin.shape) = 3 /\ xin.shape[3] = slf.input_dim

\* Variant: the layer count is not asserted.
StatesShapeOkNoLayers(slf, states) == states.shape[3] = slf.hidden_dim

\* Lines 66-67: the asserts on the layers and the hidden size of rnn_states.
StatesShapeOk(slf, states) ==
    /\ states.shape[1] = slf.num_layers
    /\ states.shape[3] = slf.hidden_dim

\* Line 71: the assert on the batch size of rnn_states.
BatchSizeOk(x3, states) == states.shape[2] = x3.shape[2]

\* Lines 76-82: the single-step path.
SingleStep(slf, x3, states, msk) ==
    LET temp_states == MulMask(states, msk.data)
    IN  IF ~temp_states.ok THEN Raise("RuntimeError", 0)
        ELSE LET init == [shape |-> temp_states.shape, data |-> temp_states.data]
                 g == gru(slf, x3.data, init)
                 out == Squeeze0([shape |-> <<1, x3.shape[2], slf.hidden_dim>>,
                                  data |-> g.out])
             IN  IF ~g.ok THEN Raise("RuntimeError", 1)
                 ELSE [status |-> "ok",
                       y |-> [shape |-> out.shape, data |-> gru_layer_norm2(out.data)],
                       h |-> g.h,
                       gru_calls |-> 1,
                       ln_calls |-> 1,
                       has_zeros |-> <<>>,
                       temp_states |-> <<init>>]

\* Variant: a row counts only when every column is zero, .all(dim=-1).
RECURSIVE NonzeroAll(_, _, _, _)
NonzeroAll(msk, seq_len, batch_size, idx) ==
    IF idx > seq_len - 2 THEN <<>>
    ELSE (IF \A b \in 1 .. batch_size : MaskRow(msk, batch_size, idx + 2)[b] = 0
          THEN <<idx>> ELSE <<>>)
         \o NonzeroAll(msk, seq_len, batch_size, idx + 1)

\* Lines 96-99: the indices idx.. of masks[1:] whose row holds a zero.
RECURSIVE Nonzero(_, _, _, _)
Nonzero(msk, seq_len, batch_size, idx) ==
    IF idx > seq_len - 2 THEN <<>>
    ELSE (IF \E b \in 1 .. batch_size : MaskRow(msk, batch_size, idx + 2)[b] = 0
          THEN <<idx>> ELSE <<>>)
         \o Nonzero(msk, seq_len, batch_size, idx + 1)

\* Lines 96-101: the boundary list.
HasZeros(msk, seq_len, batch_size) ==
    LET has_zeros == Nonzero(msk, seq_len, batch_size, 0)
        shifted == IF Len(has_zeros) = 1
                   THEN <<has_zeros[1] + 1>>
                   ELSE [i \in 1 .. Len(has_zeros) |-> has_zeros[i] + 1]
    IN  <<0>> \o shifted \o <<seq_len>>

\* Variant: the row before the chunk, masks[start_idx - 1] (the last row for 0).
ChunkMaskRowBefore(msk, batch_size, start_idx) ==
    MaskRow(msk, batch_size,
            IF start_idx = 0 THEN Numel(msk.shape) \div batch_size ELSE start_idx)

\* Line 110: the mask row that resets the state at the start of a chunk.
ChunkMaskRow(msk, batch_size, start_idx) == MaskRow(msk, batch_size, start_idx + 1)

\* Lines 105-114: the loop over the chunks, from chunk i on.  An error of the
\* recurrence ends the loop.
RECURSIVE ChunkLoop(_, _, _, _, _, _)
ChunkLoop(slf, x3, msk, has_zeros, i, states) ==
    IF i > Len(has_zeros) - 1
    THEN [ok |-> TRUE, outputs |-> <<>>, h |-> states, temp_states |-> <<>>,
          gru_calls |-> 0]
    ELSE LET start_idx == has_zeros[i]
             end_idx == has_zeros[i + 1]
             m == MulMask(states, ChunkMaskRow(msk, x3.shape[2], start_idx))
             init == [shape |-> m.shape, data |-> m.data]
             g == gru(slf, SubSeq(x3.data, start_idx + 1, end_idx), init)
             rest == ChunkLoop(slf, x3, msk, has_zeros, i + 1, g.h)
         IN  IF ~g.ok
             THEN [ok |-> FALSE, outputs |-> <<>>, h |-> NoTensor,
                   temp_states |-> <<init>>, gru_calls |-> 1]
             ELSE [ok |-> rest.ok,
                   outputs |-> <<g.out>> \o rest.outputs,
                   h |-> rest.h,
                   temp_states |-> <<init>> \o rest.temp_states,
                   gru_calls |-> 1 + rest.gru_calls]

\* Lines 85-128: the multi-step path.
MultiStep(slf, x3, states, msk) ==
    LET seq_len == x3.shape[1]
        batch_size == x3.shape[2]
    IN  IF Numel(msk.shape) # seq_len * batch_size THEN Raise("RuntimeError", 0)
        ELSE LET has_zeros == HasZeros(msk, seq_len, batch_size)
                 loop == ChunkLoop(slf, x3, msk, has_zeros, 1, states)
                 cat == Cat(loop.outputs)
             IN  IF ~loop.ok THEN Raise("RuntimeError", loop.gru_calls)
                 ELSE [status |-> "ok",
                       y |-> [shape |-> <<Len(cat), batch_size, slf.hidden_dim>>,
                              data |-> gru_layer_norm3(cat)],
                       h |-> loop.h,
                       gru_calls |-> loop.gru_calls,
                       ln_calls |-> 1,
                       has_zeros |-> has_zeros,
                       temp_states |-> loop.temp_states]

forward(slf, xin, states, msk) ==
    IF ~InputShapeOk(slf, xin) THEN Raise("AssertionError", 0)
    ELSE LET x3 == IF Len(xin.shape) = 2 THEN ViewSingleStep(slf, xin) ELSE xin
             is_single_step == x3.shape[1] = 1
         IN  IF ~StatesShapeOk(slf, states) THEN Raise("AssertionError", 0)
             ELSE IF ~BatchSizeOk(x3, states) THEN Raise("AssertionError", 0)
             ELSE IF is_single_step THEN SingleStep(slf, x3, states, msk)
             ELSE MultiStep(slf, x3, states, msk)

\* Variant: the state masked in place, rnn_states *= masks[0].
ArgsAfterInPlace(slf, xin, states, msk) ==
    LET r == forward(slf, xin, states, msk)
    IN  [x |-> xin,
         rnn_states |-> IF r.status = "ok" THEN r.temp_states[1] ELSE states,
         masks |-> msk]

\* forward writes to none of its arguments: view, * and contiguous make new
\* tensors, and the names x, rnn_states and masks are only rebound.
ArgsAfter(slf, xin, states, msk) == [x |-> xin, rnn_states |-> states, masks |-> msk]

\* init_hidden(batch_size)
init_hidden(slf, batch_size) ==
    [shape |-> <<slf.num_layers, batch_size, slf.hidden_dim>>,
     data |-> [l \in 1 .. slf.num_layers |-> [b \in 1 .. batch_size |-> 0]]]

(***************************************************************************)
(* The tensors a caller hands to forward.                                  *)
(***************************************************************************)
Const(shape, v) ==
    [i \in 1 .. Numel(shape) |-> v]

\* A (T, B, input_dim) input whose vectors differ over time and over columns.
XTensor(T, B, s) ==
    [shape |-> <<T, B, InputDim>>,
     data |-> [i \in 1 .. T |-> [b \in 1 .. B |-> (s + i + b + i * b) % 2]]]

\* A (num_layers, B, hidden_dim) state whose vectors differ over layers and columns.
HTensor(L, B, s) ==
    [shape |-> <<L, B, HiddenDim>>,
     data |-> [l \in 1 .. L |-> [b \in 1 .. B |-> (s + l + b) % 3]]]

Module(L) == [input_dim |-> InputDim, hidden_dim |-> HiddenDim, num_layers |-> L]

\* The (T, B) of the model: at most MaxCells mask entries.
Sizes == {tb \in (1 .. MaxT) \X (1 .. MaxB) : tb[1] * tb[2] <= MaxCells}

\* Well-shaped calls with every binary mask, and with inputs and states that
\* vary (a rollout starts from init_hidden); a single step comes in the
\* rank-3 form and in the rank-2 form.
DataInit ==
    \E L \in 1 .. MaxLayers, tb \in Sizes, rank \in {2, 3} :
       \E d \in [1 .. tb[1] * tb[2] -> MVals] :
          LET T == tb[1]
              B == tb[2]
              mt == [shape |-> <<T, B, 1>>, data |-> d]
              call(xt, h) ==
                  /\ x = IF rank = 2 THEN Squeeze0(xt) ELSE xt
                  /\ rnn_states = h
          IN  /\ rank = 2 => T = 1
              /\ self = Module(L)
              /\ masks = IF rank = 2 THEN [shape |-> <<B, 1>>, data |-> d] ELSE mt
              /\ \/ \E s \in HVals : call(XTensor(T, B, s % 2), HTensor(L, B, s))
                 \/ call(XTensor(T, B, 1), init_hidden(Module(L), B))

\* Calls of every shape, well-shaped or not, with constant values.
XShapes ==
    {<<InputDim>>, <<1, 1, 1, InputDim>>, <<1, InputDim + 1>>, <<1, 1, InputDim + 1>>}
    \cup {<<tb[2], InputDim>> : tb \in Sizes}
    \cup {<<tb[1], tb[2], InputDim>> : tb \in Sizes}

HShapes ==
    {<<L, B, d>> : L \in 1 .. MaxLayers, B \in 1 .. MaxB, d \in {HiddenDim, HiddenDim + 1}}

MShapes ==
    {<<tb[2], 1>> : tb \in Sizes} \cup {<<tb[1], tb[2], 1>> : tb \in Sizes}

XOfShape(shape) ==
    [shape |-> shape,
     data |-> IF Len(shape) = 2 THEN [b \in 1 .. shape[1] |-> 1]
              ELSE IF Len(shape) = 3
              THEN [i \in 1 .. shape[1] |-> [b \in 1 .. shape[2] |-> 1]]
              ELSE <<>>]

HOfShape(shape) ==
    [shape |-> shape,
     data |-> [l \in 1 .. shape[1] |-> [b \in 1 .. shape[2] |-> 1]]]

ShapeInit ==
    \E L \in 1 .. MaxLayers, xs \in XShapes, hs \in HShapes, ms \in MShapes :
       /\ self = Module(L)
       /\ x = XOfShape(xs)
       /\ rnn_states = HOfShape(hs)
       /\ masks = [shape |-> ms, data |-> Const(ms, 0)]

(***************************************************************************)
(* The caller.  It holds a module and three tensors, calls forward on      *)
(* them, then (when they are a well-shaped sequence) runs the rollout      *)
(* loop, one single-step call per time step with the returned state        *)
(* threaded into the next call, and at last calls forward on the same      *)
(* three tensors again.                                                    *)
(***************************************************************************)
Init ==
    /\ DataInit \/ ShapeInit
    /\ pc = "start"
    /\ ret = NoRet
    /\ t = 0
    /\ loop_states = NoTensor
    /\ loop_out = <<>>
    /\ ret2 = NoRet

Forward ==
    /\ pc = "start"
    /\ LET after == ArgsAfter(self, x, rnn_states, masks)
       IN  /\ ret' = forward(self, x, rnn_states, masks)
           /\ x' = after.x
           /\ rnn_states' = after.rnn_states
           /\ masks' = after.masks
    /\ loop_states' = rnn_states
    /\ pc' = "called"
    /\ UNCHANGED <<self, t, loop_out, ret2>>

\* The calls the rollout loop can make: x is (T, B, input_dim), masks is
\* (T, B, 1) and the first call returned.
IsSequence ==
    /\ ret.status = "ok"
    /\ Len(x.shape) = 3
    /\ masks.shape = <<x.shape[1], x.shape[2], 1>>

\* x[i] and masks[i] in the (B, .) form (rank 2), or x[i:i+1] and
\* masks[i:i+1] in the (1, B, .) form (rank 3), for the 0-based step i.
StepX(xin, i, rank) ==
    IF rank = 2
    THEN [shape |-> Tail(xin.shape), data |-> xin.data[i + 1]]
    ELSE [shape |-> <<1>> \o Tail(xin.shape), data |-> <<xin.data[i + 1]>>]

StepMask(msk, i, rank) ==
    [shape |-> IF rank = 2 THEN Tail(msk.shape) ELSE <<1>> \o Tail(msk.shape),
     data |-> MaskRow(msk, msk.shape[2], i + 1)]

StepForward ==
    /\ pc = "called"
    /\ IsSequence
    /\ t < x.shape[1]
    /\ \E rank \in {2, 3} :
          LET r == forward(self, StepX(x, t, rank), loop_states, StepMask(masks, t, rank))
          IN  /\ r.status = "ok"
              /\ loop_out' = Append(loop_out, r.y.data)
              /\ loop_states' = r.h
    /\ t' = t + 1
    /\ UNCHANGED <<self, x, rnn_states, masks, pc, ret, ret2>>

CallAgain ==
    /\ pc = "called"
    /\ IsSequence => t = x.shape[1]
    /\ LET after == ArgsAfter(self, x, rnn_states, masks)
       IN  /\ ret2' = forward(self, x, rnn_states, masks)
           /\ x' = after.x
           /\ rnn_states' = after.rnn_states
           /\ masks' = after.masks
    /\ pc' = "again"
    /\ UNCHANGED <<self, ret, t, loop_states, loop_out>>

Next == Forward \/ StepForward \/ CallAgain

Spec == Init /\ [][Next]_vars

(***************************************************************************)
(* Properties.                                                             *)
(***************************************************************************)
SeqLen == IF Len(x.shape) = 3 THEN x.shape[1] ELSE 1

Batch == x.shape[Len(x.shape) - 1]

\* The first call has just returned a result for a mask shaped like x.
WellShaped ==
    /\ pc = "called"
    /\ t = 0
    /\ ret.status = "ok"
    /\ masks.shape = (IF Len(x.shape) = 3 THEN <<SeqLen, Batch, 1>> ELSE <<Batch, 1>>)

\* masks[i, b] for the 0-based step i, as forward's view of masks reads it.
M(i, b) == MaskRow(masks, Batch, i + 1)[b]

RowHasZero(i) == \E b \in 1 .. Batch : M(i, b) = 0

\* The first call took the multi-step path and returned.
MultiStepReturned ==
    /\ pc = "called"
    /\ t = 0
    /\ ret.status = "ok"
    /\ Len(x.shape) = 3
    /\ x.shape[1] > 1

\* C1: for T > 1, the chunked call returns the output of every time step and
\* the ending hidden state that T single-step calls in time order return,
\* each call given the hidden state the call before it returned.
StepChunkEquivalence ==
    (pc = "called" /\ IsSequence /\ x.shape[1] > 1 /\ t = x.shape[1])
        => /\ loop_out = ret.y.data
           /\ loop_states = ret.h

StepChunkWitness ==
    /\ pc = "called" /\ IsSequence
    /\ x.shape = <<3, 2, InputDim>>
    /\ t = 3
    /\ self.num_layers = 2
    /\ M(0, 1) = 1 /\ M(1, 1) = 0 /\ M(1, 2) = 1 /\ M(2, 1) = 1 /\ M(2, 2) = 1
    /\ rnn_states.data[1][1] # 0 /\ rnn_states.data[2][2] # 0
    /\ Len(ret.has_zeros) = 3

\* C7: with a mask of ones and T > 1 there is one chunk [0, T), the recurrence
\* is invoked once, on the whole sequence and the incoming hidden state as it
\* is, and the result is that call's output, normalized, and its ending state.
AllOnesOneChunk ==
    (MultiStepReturned /\ \A i \in 1 .. Len(masks.data) : masks.data[i] = 1)
        => LET g == gru(self, x.data, rnn_states)
           IN  /\ ret.has_zeros = <<0, x.shape[1]>>
               /\ ret.gru_calls = 1
               /\ ret.temp_states = <<rnn_states>>
               /\ g.ok
               /\ ret.y.data = gru_layer_norm3(g.out)
               /\ ret.h = g.h

AllOnesWitness ==
    /\ MultiStepReturned
    /\ \A i \in 1 .. Len(masks.data) : masks.data[i] = 1
    /\ x.shape = <<3, 2, InputDim>>
    /\ rnn_states.data[1][1] # 0
    /\ ret.gru_calls = 1

\* C9: on the multi-step path the boundary list is strictly increasing from 0
\* to T, its interior entries are the rows 1..T-1 whose mask holds a zero, one
\* recurrence call is made per chunk, the chunks make up T output steps, and
\* every step with a zero in its mask row is the first step of a chunk.
BoundaryList ==
    MultiStepReturned
        => LET hz == ret.has_zeros
               n == Len(hz)
               T == x.shape[1]
           IN  /\ n >= 2
               /\ hz[1] = 0
               /\ hz[n] = T
               /\ \A k \in 1 .. n - 1 : hz[k] < hz[k + 1]
               /\ {hz[k] : k \in 2 .. n - 1} = {i \in 1 .. T - 1 : RowHasZero(i)}
               /\ ret.gru_calls = n - 1
               /\ Len(ret.y.data) = T
               /\ \A i \in 0 .. T - 1 : RowHasZero(i) => \E k \in 1 .. n - 1 : hz[k] = i

BoundaryListWitness ==
    /\ MultiStepReturned
    /\ x.shape[1] = 3
    /\ Batch = 2
    /\ M(1, 1) = 0 /\ M(1, 2) = 1 /\ M(2, 1) = 1 /\ M(2, 2) = 0
    /\ ret.has_zeros = <<0, 1, 2, 3>>

\* C3: the output of an accepted call has the time/batch layout of x with
\* hidden_dim as its feature size, and the returned hidden state has the
\* shape of rnn_states.
ShapePropagation ==
    WellShaped
        => /\ ret.y.shape = SubSeq(x.shape, 1, Len(x.shape) - 1) \o <<self.hidden_dim>>
           /\ ret.h.shape = rnn_states.shape

\* The batch size and the time length that the shape of masks states.
MaskBatch == masks.shape[Len(masks.shape) - 1]

MaskTime == IF Len(masks.shape) = 3 THEN masks.shape[1] ELSE 1

\* C4: a call whose x, rnn_states and masks do not agree on the batch size, or
\* whose masks has another time length than x, returns no result.
MaskShapeContract ==
    (/\ pc = "called"
     /\ Len(x.shape) \in {2, 3}
     /\ ~(/\ rnn_states.shape[2] = Batch
          /\ MaskBatch = Batch
          /\ MaskTime = SeqLen))
        => ret.status # "ok"

\* C5: a call with rnn_states of another layer count than num_layers fails on
\* an assert, with the recurrence and the normalization never invoked and
\* nothing returned.
LayerCountContract ==
    (pc = "called" /\ rnn_states.shape[1] # self.num_layers)
        => /\ ret.status = "AssertionError"
           /\ ret.gru_calls = 0
           /\ ret.ln_calls = 0
           /\ ret.y = NoTensor
           /\ ret.h = NoTensor

LayerCountWitness ==
    /\ pc = "called"
    /\ rnn_states.shape[1] # self.num_layers
    /\ x.shape = <<3, 2, InputDim>>
    /\ rnn_states.shape[2] = 2
    /\ rnn_states.shape[3] = HiddenDim
    /\ masks.shape = <<3, 2, 1>>
    /\ ret.status = "AssertionError"

\* C6: a call with a (B, input_dim) x returns what the call with the same
\* values as a (1, B, input_dim) x returns, for the same rnn_states and masks.
AutoPromotion ==
    (pc = "called" /\ Len(x.shape) = 2)
        => LET r == forward(self, [shape |-> <<1>> \o x.shape, data |-> <<x.data>>],
                            rnn_states, masks)
           IN  /\ r.status = ret.status
               /\ r.y = ret.y
               /\ r.h = ret.h

AutoPromotionWitness ==
    /\ WellShaped
    /\ x.shape = <<2, InputDim>>
    /\ self.num_layers = 2
    /\ masks.data = <<0, 1>>
    /\ rnn_states.data[1][1] # 0 /\ rnn_states.data[1][2] # 0
    /\ ret.y.shape = <<2, HiddenDim>>

YAt(r, i, b) == IF Len(r.y.shape) = 2 THEN r.y.data[b] ELSE r.y.data[i + 1][b]

HCol(h, b) == [l \in 1 .. Len(h.data) |-> h.data[l][b]]

\* x with the vectors of column b at the steps before i replaced by f[1..i].
XWithPrefix(b, i, f) ==
    IF Len(x.shape) = 2 THEN x
    ELSE [x EXCEPT !.data = [j \in 1 .. SeqLen |-> [c \in 1 .. Batch |->
              IF c = b /\ j <= i THEN f[j] ELSE x.data[j][c]]]]

\* rnn_states with column b replaced by the vectors g[1..num_layers].
HWithCol(b, g) ==
    [rnn_states EXCEPT !.data = [l \in 1 .. Len(rnn_states.data) |-> [c \in 1 .. Batch |->
        IF c = b THEN g[l] ELSE rnn_states.data[l][c]]]]

\* The chunk of the first call that starts at the 0-based step i, if any.
ChunkAt(i) ==
    IF ret.has_zeros = <<>> THEN (IF i = 0 THEN {1} ELSE {})
    ELSE {k \in 1 .. Len(ret.has_zeros) - 1 : ret.has_zeros[k] = i}

\* The runs that differ from the first call only in column b, in its incoming
\* state or its inputs before step i: every state of the column with the
\* inputs kept, every choice of the inputs with the state kept, and every
\* constant state with all the inputs flipped.
ResetAlternatives(b, i) ==
    LET own == [j \in 1 .. i |-> IF Len(x.shape) = 3 THEN x.data[j][b] ELSE 0]
        flipped == [j \in 1 .. i |-> 1 - own[j]]
    IN  {[x |-> x, rnn_states |-> HWithCol(b, g)] :
             g \in [1 .. self.num_layers -> HVals]}
        \cup {[x |-> XWithPrefix(b, i, f), rnn_states |-> rnn_states] :
                 f \in [1 .. i -> XVals]}
        \cup {[x |-> XWithPrefix(b, i, flipped),
               rnn_states |-> HWithCol(b, [l \in 1 .. self.num_layers |-> v])] :
                 v \in HVals}

\* C2: where masks[i, b] is 0, step i starts a chunk whose recurrence call gets
\* a zero state for column b, and the outputs of column b from step i on (and
\* its ending state) are those of any run that differs only in the incoming
\* state of column b or in the inputs of column b before step i.
MaskZeroReset ==
    WellShaped
        => \A i \in 0 .. SeqLen - 1, b \in 1 .. Batch :
              M(i, b) = 0
                  => /\ \E k \in ChunkAt(i) :
                           \A l \in 1 .. self.num_layers :
                              ret.temp_states[k].data[l][b] = 0
                     /\ \A alt \in ResetAlternatives(b, i) :
                           LET r == forward(self, alt.x, alt.rnn_states, masks)
                           IN  /\ r.status = "ok"
                               /\ \A j \in i .. SeqLen - 1 : YAt(r, j, b) = YAt(ret, j, b)
                               /\ HCol(r.h, b) = HCol(ret.h, b)

\* A reset in the middle of a sequence, of a column whose state and earlier
\* inputs do reach the earlier outputs.
MaskZeroResetWitness ==
    /\ WellShaped
    /\ x.shape = <<3, 2, InputDim>>
    /\ self.num_layers = 2
    /\ M(0, 1) = 1 /\ M(1, 1) = 1 /\ M(2, 1) = 0 /\ M(2, 2) = 1
    /\ HCol(rnn_states, 1) = <<1, 2>>
    /\ \E g \in [1 .. 2 -> HVals] :
          YAt(forward(self, x, HWithCol(1, g), masks), 1, 1) # YAt(ret, 1, 1)

\* x, rnn_states and masks with the entries of column c replaced.
XWithCol(c, f) ==
    IF Len(x.shape) = 2
    THEN [x EXCEPT !.data = [d \in 1 .. Batch |-> IF d = c THEN f[1] ELSE x.data[d]]]
    ELSE [x EXCEPT !.data = [j \in 1 .. SeqLen |-> [d \in 1 .. Batch |->
              IF d = c THEN f[j] ELSE x.data[j][d]]]]

MWithCol(c, f) ==
    [masks EXCEPT !.data = [n \in 1 .. SeqLen * Batch |->
        IF ((n - 1) % Batch) + 1 = c THEN f[((n - 1) \div Batch) + 1] ELSE masks.data[n]]]

XCol(c) == [j \in 1 .. SeqLen |-> IF Len(x.shape) = 2 THEN x.data[c] ELSE x.data[j][c]]

MCol(c) == [j \in 1 .. SeqLen |-> M(j - 1, c)]

\* The runs that differ from the first call only in column c: every mask of
\* the column, every input of the column and every state of the column, one
\* of them at a time, and the three of them replaced by constants.
ColumnAlternatives(c) ==
    {[x |-> x, rnn_states |-> rnn_states, masks |-> MWithCol(c, f)] :
         f \in [1 .. SeqLen -> MVals]}
    \cup {[x |-> XWithCol(c, f), rnn_states |-> rnn_states, masks |-> masks] :
              f \in [1 .. SeqLen -> XVals]}
    \cup {[x |-> x, rnn_states |-> HWithCol(c, g), masks |-> masks] :
              g \in [1 .. self.num_layers -> HVals]}
    \cup {[x |-> XWithCol(c, [j \in 1 .. SeqLen |-> 1 - XCol(c)[j]]),
           rnn_states |-> HWithCol(c, [l \in 1 .. self.num_layers |-> v]),
           masks |-> MWithCol(c, [j \in 1 .. SeqLen |-> m])] :
              v \in HVals, m \in MVals}

\* The state carried into chunk k of the first call: rnn_states for the first
\* chunk, and what the recurrence returned for the chunk before otherwise.
Carried(k) ==
    IF k = 1 THEN rnn_states
    ELSE gru(self, SubSeq(x.data, ret.has_zeros[k - 1] + 1, ret.has_zeros[k]),
             ret.temp_states[k - 1]).h

\* C10: the outputs and the ending state of column b are those of any run that
\* differs only in the inputs, the incoming state or the mask of another
\* column, and a column whose mask is 1 at the start of a chunk has its carried
\* state handed to the recurrence unchanged.
ColumnsIndependent ==
    WellShaped
        => \A b \in 1 .. Batch :
              /\ \A c \in (1 .. Batch) \ {b} :
                    \A alt \in ColumnAlternatives(c) :
                       LET r == forward(self, alt.x, alt.rnn_states, alt.masks)
                       IN  /\ r.status = "ok"
                           /\ \A j \in 0 .. SeqLen - 1 : YAt(r, j, b) = YAt(ret, j, b)
                           /\ HCol(r.h, b) = HCol(ret.h, b)
              /\ \A k \in 1 .. Len(ret.temp_states) :
                    LET start_idx == IF ret.has_zeros = <<>> THEN 0 ELSE ret.has_zeros[k]
                    IN  M(start_idx, b) = 1
                            => HCol(ret.temp_states[k], b) = HCol(Carried(k), b)

\* A chunk cut by a zero of column 1 alone, which column 2 crosses with a
\* state that is not zero.
ColumnsIndependentWitness ==
    /\ WellShaped
    /\ x.shape = <<3, 2, InputDim>>
    /\ self.num_layers = 2
    /\ M(0, 2) = 1 /\ M(1, 1) = 0 /\ M(1, 2) = 1 /\ M(2, 1) = 1 /\ M(2, 2) = 1
    /\ ret.has_zeros = <<0, 1, 3>>
    /\ HCol(ret.temp_states[2], 2) # <<0, 0>>
    /\ HCol(ret.temp_states[2], 1) = <<0, 0>>
====
